---- MODULE Spec2Model ----
(***************************************************************************)
(* rust-skia-performance-test, src/main.rs: main parses the command line,  *)
(* enables every stage when no stage flag is given, and calls              *)
(* performance_test loop_count times.  performance_test allocates a raster *)
(* surface, clears it, applies the global scale, runs the enabled draw     *)
(* stages (path, raster, text, svg) and finally save_to_png.               *)
(*                                                                         *)
(* The graphics library is modelled by what the program observes of it:    *)
(* the canvas is a current transform, a save stack and the list of draw    *)
(* operations applied to the surface (each recorded with the transform it  *)
(* was drawn under); every Option/Result the library or the file system    *)
(* returns is an outcome chosen by the environment.                        *)
(*                                                                         *)
(* Transforms are uniform scale + translation, in hundredths: the          *)
(* transform [s, tx, ty] maps x to (s*x + tx)/100.  All factors the        *)
(* program uses (0.45, 0.05, 0.22, integer scale) are exact hundredths.    *)
(***************************************************************************)
EXTENDS Integers, Sequences, FiniteSets, TLC

VARIABLES
    cli,        \* the flags as given on the command line (Cli::parse result)
    args,       \* main's mutable `args`
    pc,         \* position of the single thread of control
    i,          \* number of completed iterations of main's for loop
    surface,    \* Option<Surface> of the running performance_test: <<>> or <<s>>
    output,     \* output-rust.png in the working directory: <<>> or <<file>>
    panic,      \* why the process aborted, "" while it has not
    stages,     \* stages entered in the current iteration, in order
    result,     \* per-stage outcome of the current iteration
    allocs      \* number of surfaces allocated so far

vars == <<cli, args, pc, i, surface, output, panic, stages, result, allocs>>

-----------------------------------------------------------------------------
(* Constants of the program and bounds of the model *)

CANVAS_SIZE == 512

U8_MAX == 255

I32_MAX == 2147483647

\* loop_count is a u8; the model runs at most this many iterations
MaxLoop == 2

\* the model tries every scale 0..MaxLowScale, and the largest u8 values
MaxLowScale == 2

ScaleInputs == (0..MaxLowScale) \cup {64, 128, U8_MAX}

\* what the environment can make of an asset file when a stage looks at it
FileStates == {"missing", "unopenable", "unreadable", "malformed", "valid"}

-----------------------------------------------------------------------------
(* 32-bit signed arithmetic *)

\* i32 multiplication, wrapping as a release build does
mul_i32(a, b) ==
    LET p == a * b
    IN  IF p > I32_MAX THEN ((p - I32_MAX) - 1) + ((0 - I32_MAX) - 1) ELSE p

-----------------------------------------------------------------------------
(* Canvas *)

Identity == [s |-> 100, tx |-> 0, ty |-> 0]

NewCanvas == [ctm |-> Identity, stack |-> <<>>, ops |-> <<>>]

save(c) == [c EXCEPT !.stack = Append(@, c.ctm)]

\* restore with an empty stack is a no-op in the library
restore(c) ==
    IF c.stack = <<>> THEN c
    ELSE [c EXCEPT !.ctm = c.stack[Len(c.stack)],
                   !.stack = SubSeq(c.stack, 1, Len(c.stack) - 1)]

translate(c, dx, dy) ==
    [c EXCEPT !.ctm = [s  |-> c.ctm.s,
                       tx |-> c.ctm.tx + c.ctm.s * dx,
                       ty |-> c.ctm.ty + c.ctm.s * dy]]

\* k100 is the factor in hundredths
scale(c, k100) ==
    [c EXCEPT !.ctm = [s  |-> (c.ctm.s * k100) \div 100,
                       tx |-> c.ctm.tx,
                       ty |-> c.ctm.ty]]

\* a draw call: recorded with the transform in force
draw(c, what, font) ==
    [c EXCEPT !.ops = Append(@, [op |-> what, ctm |-> c.ctm, font |-> font])]

clear(c) ==
    [c EXCEPT !.ops = Append(@, [op |-> "clear", ctm |-> Identity, font |-> ""])]

-----------------------------------------------------------------------------
(* File helpers.  f is the state of the asset file when the stage runs. *)

\* TRUE: the path is returned; FALSE: panic!("File doesn't exist")
check_file_exists(f) == f # "missing"

\* File::open(..).unwrap() panics; read_to_end's error is returned as Err
bytes_from_file_path(f) ==
    IF f \in {"missing", "unopenable"} THEN "panic"
    ELSE IF f = "unreadable" THEN "Err"
    ELSE "Ok"

\* .map(..) keeps Ok/Err
data_from_file_path(f) == bytes_from_file_path(f)

\* Image::from_encoded, Typeface::from_data, Dom::from_bytes on the bytes read
decodes(f) == f = "valid"

-----------------------------------------------------------------------------
(* Element renderers: each returns the canvas it leaves and whether it     *)
(* panicked (the canvas is then the one at the point of the panic).        *)

draw_path(c, parsed) ==
    LET c3 == scale(translate(save(c), 12, 12), 45)
        c4 == IF parsed THEN draw(c3, "draw_path", "") ELSE c3
    IN  [canvas |-> restore(c4), panicked |-> FALSE]

\* draw_raster with the decoded image unwrapped instead of matched
draw_raster_unwrap(c, f) ==
    LET c3 == scale(translate(save(c), 250, 0), 5)
        d  == data_from_file_path(f)
    IN  IF d = "panic" \/ (d = "Ok" /\ ~decodes(f))
        THEN [canvas |-> c3, panicked |-> TRUE]
        ELSE [canvas |-> restore(IF d = "Ok" THEN draw(c3, "draw_image", "") ELSE c3),
              panicked |-> FALSE]

draw_raster(c, f) ==
    LET c3 == scale(translate(save(c), 250, 0), 5)
        d  == data_from_file_path(f)
        c4 == IF d = "Ok" /\ decodes(f) THEN draw(c3, "draw_image", "") ELSE c3
    IN  IF d = "panic" THEN [canvas |-> c3, panicked |-> TRUE]
        ELSE [canvas |-> restore(c4), panicked |-> FALSE]

\* the paragraph is built, laid out and painted whether or not the typeface
\* was registered; without it the family "Adigiana" resolves to no asset font
draw_text(c, f) ==
    LET d    == data_from_file_path(f)
        font == IF d = "Ok" /\ decodes(f) THEN "Adigiana" ELSE "unregistered"
    IN  IF d = "panic" THEN [canvas |-> c, panicked |-> TRUE]
        ELSE [canvas |-> draw(c, "paint_paragraph", font), panicked |-> FALSE]

\* draw_svg returning early, before canvas.restore(), when the DOM is absent
draw_svg_early_return(c, f) ==
    LET c3 == scale(translate(save(c), 350, 275), 22)
        d  == bytes_from_file_path(f)
    IN  IF d = "panic" THEN [canvas |-> c3, panicked |-> TRUE]
        ELSE IF d = "Ok" /\ decodes(f)
             THEN [canvas |-> restore(draw(c3, "render_svg", "")), panicked |-> FALSE]
             ELSE [canvas |-> c3, panicked |-> FALSE]

draw_svg(c, f) ==
    LET c3 == scale(translate(save(c), 350, 275), 22)
        d  == bytes_from_file_path(f)
        c4 == IF d = "Ok" /\ decodes(f) THEN draw(c3, "render_svg", "") ELSE c3
    IN  IF d = "panic" THEN [canvas |-> c3, panicked |-> TRUE]
        ELSE [canvas |-> restore(c4), panicked |-> FALSE]

-----------------------------------------------------------------------------
(* Surface provider and encoder *)

\* the product taken in the width of `scale` (u8) instead of i32
surface_side_u8(sc) == (CANVAS_SIZE * sc) % (U8_MAX + 1)

\* both sides of the surface performance_test asks for
surface_side(sc) == mul_i32(CANVAS_SIZE, sc)

\* surfaces::raster_n32_premul: None for an empty size, and whenever the
\* pixel memory cannot be allocated (alloc_ok chosen by the environment)
raster_n32_premul(w, h, alloc_ok) ==
    IF w <= 0 \/ h <= 0 \/ ~alloc_ok THEN <<>>
    ELSE <<[width |-> w, height |-> h, canvas |-> NewCanvas]>>

\* what save_to_png leaves in the output file and whether it panics;
\* e is what the encoder and the file system do:
\*   "encode_failed": image.encode returns None, nothing else happens
\*   "create_failed": File::create(..).unwrap() panics, file untouched
\*   "write_failed":  the created (truncated) file is left incomplete
save_to_png(s, old, n, e) ==
    LET img == [width |-> s.width, height |-> s.height, ops |-> s.canvas.ops,
                iter |-> n, complete |-> TRUE]
    IN  CASE e = "ok"            -> [file |-> <<img>>, panicked |-> FALSE]
          [] e = "encode_failed" -> [file |-> old, panicked |-> FALSE]
          [] e = "create_failed" -> [file |-> old, panicked |-> TRUE]
          [] e = "write_failed"  ->
                [file |-> <<[img EXCEPT !.complete = FALSE]>>, panicked |-> TRUE]

SaveOutcomes == {"ok", "encode_failed", "create_failed", "write_failed"}

-----------------------------------------------------------------------------
(* main *)

NoFlag(a) ==
    ~(a.draw_path \/ a.draw_raster \/ a.draw_text \/ a.draw_svg \/ a.save)

\* the default taken whenever no draw flag is given, --save not looked at
enable_defaults_ignoring_save(a) ==
    IF ~(a.draw_path \/ a.draw_raster \/ a.draw_text \/ a.draw_svg)
    THEN [a EXCEPT !.draw_path = TRUE, !.draw_raster = TRUE, !.draw_text = TRUE,
                   !.draw_svg = TRUE, !.save = TRUE]
    ELSE a

\* lines 42-48: no stage flag at all enables all five
enable_defaults(a) ==
    IF NoFlag(a)
    THEN [a EXCEPT !.draw_path = TRUE, !.draw_raster = TRUE, !.draw_text = TRUE,
                   !.draw_svg = TRUE, !.save = TRUE]
    ELSE a

\* the parameter of performance_test that guards each stage
stage_flag(a, st) ==
    CASE st = "path"   -> a.draw_path
      [] st = "raster" -> a.draw_raster
      [] st = "text"   -> a.draw_text
      [] st = "svg"    -> a.draw_svg
      [] st = "save"   -> a.save

\* the text and svg blocks in the other order
stage_after_svg_first(st) ==
    CASE st = "surface" -> "path"
      [] st = "path"    -> "raster"
      [] st = "raster"  -> "svg"
      [] st = "svg"     -> "text"
      [] st = "text"    -> "save"
      [] st = "save"    -> "loop"

\* the statement performance_test reaches after the block of stage st
stage_after(st) ==
    CASE st = "surface" -> "path"
      [] st = "path"    -> "raster"
      [] st = "raster"  -> "text"
      [] st = "text"    -> "svg"
      [] st = "svg"     -> "save"
      [] st = "save"    -> "loop"

FreshResult ==
    [st \in {"surface", "path", "raster", "text", "svg", "save"} |-> "none"]

\* how a renderer's asset turned out
AssetOutcome(f) ==
    CASE f = "missing"    -> "missing"
      [] f = "unopenable" -> "open_failed"
      [] f = "unreadable" -> "read_failed"
      [] f = "malformed"  -> "decode_failed"
      [] f = "valid"      -> "drawn"

StaleFile ==
    [width |-> CANVAS_SIZE, height |-> CANVAS_SIZE, ops |-> <<>>, iter |-> 0,
     complete |-> TRUE]

Init ==
    /\ cli \in [draw_path : BOOLEAN, draw_raster : BOOLEAN, draw_text : BOOLEAN,
                draw_svg : BOOLEAN, save : BOOLEAN,
                loop_count : 0..MaxLoop, scale : ScaleInputs]
    /\ args = cli
    /\ pc = "main"
    /\ i = 0
    /\ surface = <<>>
    /\ output \in {<<>>, <<StaleFile>>}
    /\ panic = ""
    /\ stages = <<>>
    /\ result = FreshResult
    /\ allocs = 0

main_defaults ==
    /\ pc = "main"
    /\ args' = enable_defaults(args)
    /\ pc' = "loop"
    /\ UNCHANGED <<cli, i, surface, output, panic, stages, result, allocs>>

\* for _ in 0..args.loop_count: call performance_test, or leave the loop
main_loop ==
    /\ pc = "loop"
    /\ IF i < args.loop_count
       THEN /\ pc' = "surface"
            /\ stages' = <<>>
            /\ result' = FreshResult
       ELSE /\ pc' = "exit"
            /\ UNCHANGED <<stages, result>>
    /\ UNCHANGED <<cli, args, i, surface, output, panic, allocs>>

\* lines 72-79: allocate, clear to white, apply the global scale; with no
\* surface the whole body is skipped and performance_test returns
performance_test_surface ==
    /\ pc = "surface"
    /\ \E alloc_ok \in BOOLEAN :
         LET side == surface_side(args.scale)
             s    == raster_n32_premul(side, side, alloc_ok)
         IN  IF s = <<>>
             THEN /\ surface' = <<>>
                  /\ result' = [result EXCEPT !["surface"] =
                                    IF side <= 0 THEN "empty" ELSE "no_memory"]
                  /\ i' = i + 1
                  /\ pc' = "loop"
                  /\ UNCHANGED <<stages, allocs>>
             ELSE /\ surface' =
                        <<[s[1] EXCEPT !.canvas =
                               scale(clear(s[1].canvas), 100 * args.scale)]>>
                  /\ result' = [result EXCEPT !["surface"] = "ok"]
                  /\ stages' = Append(stages, "clear")
                  /\ allocs' = allocs + 1
                  /\ pc' = stage_after("surface")
                  /\ UNCHANGED i
    /\ UNCHANGED <<cli, args, output, panic>>

\* the common shape of a draw stage's block: r is what the renderer returned
StageDone(st, r, outcome) ==
    /\ surface' = <<[surface[1] EXCEPT !.canvas = r.canvas]>>
    /\ stages' = Append(stages, st)
    /\ result' = [result EXCEPT ![st] = outcome]
    /\ IF r.panicked
       THEN pc' = "abort" /\ panic' = outcome
       ELSE pc' = stage_after(st) /\ UNCHANGED panic

StageSkipped(st) ==
    /\ pc' = stage_after(st)
    /\ UNCHANGED <<surface, stages, result, panic>>

StageMissing(st) ==
    /\ pc' = "abort"
    /\ panic' = "missing"
    /\ result' = [result EXCEPT ![st] = "missing"]
    /\ UNCHANGED <<surface, stages>>

performance_test_path ==
    /\ pc = "path"
    /\ IF stage_flag(args, "path")
       THEN \E parsed \in BOOLEAN :
              StageDone("path", draw_path(surface[1].canvas, parsed),
                        IF parsed THEN "drawn" ELSE "decode_failed")
       ELSE StageSkipped("path")
    /\ UNCHANGED <<cli, args, i, output, allocs>>

performance_test_raster ==
    /\ pc = "raster"
    /\ IF stage_flag(args, "raster")
       THEN \E f \in FileStates :
              IF check_file_exists(f)
              THEN StageDone("raster", draw_raster(surface[1].canvas, f),
                             AssetOutcome(f))
              ELSE StageMissing("raster")
       ELSE StageSkipped("raster")
    /\ UNCHANGED <<cli, args, i, output, allocs>>

performance_test_text ==
    /\ pc = "text"
    /\ IF stage_flag(args, "text")
       THEN \E f \in FileStates :
              IF check_file_exists(f)
              THEN StageDone("text", draw_text(surface[1].canvas, f),
                             AssetOutcome(f))
              ELSE StageMissing("text")
       ELSE StageSkipped("text")
    /\ UNCHANGED <<cli, args, i, output, allocs>>

performance_test_svg ==
    /\ pc = "svg"
    /\ IF stage_flag(args, "svg")
       THEN \E f \in FileStates :
              IF check_file_exists(f)
              THEN StageDone("svg", draw_svg(surface[1].canvas, f),
                             AssetOutcome(f))
              ELSE StageMissing("svg")
       ELSE StageSkipped("svg")
    /\ UNCHANGED <<cli, args, i, output, allocs>>

\* lines 95-99: save when enabled, then the surface is dropped and
\* performance_test returns to the loop
performance_test_save ==
    /\ pc = "save"
    /\ IF stage_flag(args, "save")
       THEN \E e \in SaveOutcomes :
              LET r == save_to_png(surface[1], output, i + 1, e)
              IN  /\ output' = r.file
                  /\ stages' = Append(stages, "save")
                  /\ result' = [result EXCEPT !["save"] = e]
                  /\ IF r.panicked
                     THEN /\ pc' = "abort"
                          /\ panic' = e
                          /\ UNCHANGED <<surface, i>>
                     ELSE /\ pc' = stage_after("save")
                          /\ surface' = <<>>
                          /\ i' = i + 1
                          /\ UNCHANGED panic
       ELSE /\ pc' = stage_after("save")
            /\ surface' = <<>>
            /\ i' = i + 1
            /\ UNCHANGED <<output, stages, result, panic>>
    /\ UNCHANGED <<cli, args, allocs>>

Next ==
    \/ main_defaults
    \/ main_loop
    \/ performance_test_surface
    \/ performance_test_path
    \/ performance_test_raster
    \/ performance_test_text
    \/ performance_test_svg
    \/ performance_test_save

Spec == Init /\ [][Next]_vars

-----------------------------------------------------------------------------
(* Vocabulary of the properties *)

AllStages == {"path", "raster", "text", "svg", "save"}

Rank(st) ==
    CASE st = "clear"  -> 0
      [] st = "path"   -> 1
      [] st = "raster" -> 2
      [] st = "text"   -> 3
      [] st = "svg"    -> 4
      [] st = "save"   -> 5

\* the stages a flag record enables, read off its fields
Given(a) ==
    (IF a.draw_path THEN {"path"} ELSE {}) \cup
    (IF a.draw_raster THEN {"raster"} ELSE {}) \cup
    (IF a.draw_text THEN {"text"} ELSE {}) \cup
    (IF a.draw_svg THEN {"svg"} ELSE {}) \cup
    (IF a.save THEN {"save"} ELSE {})

Range(q) == {q[k] : k \in 1..Len(q)}

\* control is in performance_test, between two stages, with a live surface
InComposer == pc \in {"path", "raster", "text", "svg", "save"}

\* the iteration that just returned went through all its stages
IterationCompleted ==
    pc \in {"loop", "exit"} /\ i > 0 /\ result["surface"] = "ok"

WrittenByRun == output # <<>> /\ output[1].iter > 0

BaseCtm(sc) == [s |-> 100 * sc, tx |-> 0, ty |-> 0]

Op(what, s, tx, ty, font) ==
    [op |-> what, ctm |-> [s |-> s, tx |-> tx, ty |-> ty], font |-> font]

-----------------------------------------------------------------------------
(* C1: the stage order.  In every iteration the clear comes first, the     *)
(* stages that run are in the order path, raster, text, svg, save, only    *)
(* enabled stages run, an iteration that went through ran exactly the      *)
(* enabled ones, and save runs only after every enabled draw stage ran.    *)
C1_StageOrder ==
    /\ \A k \in 1..Len(stages) :
          /\ k = 1 => stages[k] = "clear"
          /\ k > 1 => Rank(stages[k - 1]) < Rank(stages[k])
          /\ stages[k] # "clear" => stages[k] \in Given(args)
    /\ InComposer =>
          /\ stages # <<>>
          /\ surface[1].canvas.ops[1].op = "clear"
          /\ \A st \in Given(args) : Rank(st) < Rank(pc) => st \in Range(stages)
    /\ "save" \in Range(stages) => Given(args) \subseteq Range(stages)
    /\ IterationCompleted => Range(stages) = {"clear"} \cup Given(args)

C1_Witness ==
    /\ pc = "loop"
    /\ stages = <<"clear", "path", "text", "save">>
    /\ Given(args) = {"path", "text", "save"}

-----------------------------------------------------------------------------
(* C2: whenever the save stage ran and the encoder or the file failed,     *)
(* the process has aborted.                                                *)
C2_EncoderFailureAborts ==
    result["save"] \in {"encode_failed", "create_failed", "write_failed"}
        => pc = "abort"

-----------------------------------------------------------------------------
(* C3: whenever surface creation returned no surface, the process has      *)
(* aborted.                                                                *)
C3_AllocFailureAborts ==
    result["surface"] \in {"empty", "no_memory"} => pc = "abort"

-----------------------------------------------------------------------------
(* C4: when the process aborts on a missing asset file, no clear and no    *)
(* draw has been applied to a surface and no renderer has run.             *)
C4_MissingAbortsBeforeDrawing ==
    panic = "missing" =>
        /\ surface = <<>> \/ surface[1].canvas.ops = <<>>
        /\ stages = <<>>

-----------------------------------------------------------------------------
(* C5: whenever control is in the composer between two stages, the         *)
(* canvas's transform is the global scale set by performance_test and its  *)
(* save stack is empty, whatever the earlier stages' assets did.           *)
C5_TransformsDoNotLeak ==
    InComposer =>
        /\ surface[1].canvas.ctm = BaseCtm(args.scale)
        /\ surface[1].canvas.stack = <<>>

C5_Witness ==
    /\ pc = "save"
    /\ stages = <<"clear", "path", "raster", "text", "svg">>
    /\ result["path"] = "drawn"
    /\ result["raster"] = "decode_failed"
    /\ result["text"] = "read_failed"
    /\ result["svg"] = "drawn"
    /\ args.scale = 2

-----------------------------------------------------------------------------
(* C6: malformed assets.  ExpectedOps is the list of operations of a run   *)
(* in which exactly the stages of the set D draw, each under the transform *)
(* its renderer sets from the global scale sc.                             *)
ExpectedOps(sc, D, textFont) ==
    <<Op("clear", 100, 0, 0, "")>>
    \o (IF "path" \in D
        THEN <<Op("draw_path", 45 * sc, 1200 * sc, 1200 * sc, "")>> ELSE <<>>)
    \o (IF "raster" \in D
        THEN <<Op("draw_image", 5 * sc, 25000 * sc, 0, "")>> ELSE <<>>)
    \o (IF "text" \in D
        THEN <<Op("paint_paragraph", 100 * sc, 0, 0, textFont)>> ELSE <<>>)
    \o (IF "svg" \in D
        THEN <<Op("render_svg", 22 * sc, 35000 * sc, 27500 * sc, "")>> ELSE <<>>)

Drawn == {st \in {"path", "raster", "text", "svg"} : result[st] = "drawn"}

OnlyDecodeFailures ==
    \A st \in {"path", "raster", "text", "svg"} :
        result[st] \in {"none", "drawn", "decode_failed"}

\* C6 as stated: a stage whose asset fails to decode draws nothing, so the
\* surface, and the file saved from it, hold the operations of the run with
\* that stage disabled; the failure does not abort, and the later stages run.
C6_MalformedAssetOmitted ==
    /\ panic # "decode_failed"
    /\ (InComposer /\ OnlyDecodeFailures) =>
          surface[1].canvas.ops = ExpectedOps(args.scale, Drawn, "Adigiana")
    /\ (IterationCompleted /\ OnlyDecodeFailures /\ result["save"] = "ok") =>
          /\ WrittenByRun
          /\ output[1].ops = ExpectedOps(args.scale, Drawn, "Adigiana")
    /\ IterationCompleted => Range(stages) = {"clear"} \cup Given(args)

\* the text stage paints its paragraph also when the font did not load
Painted ==
    Drawn \cup (IF result["text"] \in {"decode_failed", "read_failed"}
                THEN {"text"} ELSE {})

TextFont == IF result["text"] = "drawn" THEN "Adigiana" ELSE "unregistered"

(* C6 amended: a malformed asset never aborts; the path, image and SVG     *)
(* stages then draw nothing, the text stage still paints its paragraph     *)
(* with the font family unregistered; the later enabled stages run, and    *)
(* the file the save stage writes holds exactly these operations.          *)
C6_Amended ==
    /\ panic # "decode_failed"
    /\ InComposer =>
          surface[1].canvas.ops = ExpectedOps(args.scale, Painted, TextFont)
    /\ (IterationCompleted /\ result["save"] = "ok") =>
          /\ WrittenByRun
          /\ output[1].iter = i
          /\ output[1].complete
          /\ output[1].ops = ExpectedOps(args.scale, Painted, TextFont)
    /\ IterationCompleted => Range(stages) = {"clear"} \cup Given(args)

C6_Witness ==
    /\ pc = "loop"
    /\ result["raster"] = "decode_failed"
    /\ result["text"] = "decode_failed"
    /\ result["svg"] = "drawn"
    /\ result["save"] = "ok"
    /\ Len(output[1].ops) = 3

-----------------------------------------------------------------------------
(* C7: the process aborts only for a missing asset file or for a failure   *)
(* to create or write the output; an asset that exists but cannot be       *)
(* opened or read is absorbed.                                             *)
C7_OnlyMissingOrWriteAborts ==
    /\ panic \in {"", "missing", "create_failed", "write_failed"}
    /\ \A st \in {"raster", "text", "svg"} :
          result[st] \in {"open_failed", "read_failed"} => pc # "abort"

-----------------------------------------------------------------------------
\* no refusal from the allocator, the decoders, the encoder or the file system
FaultFree ==
    /\ result["surface"] # "no_memory"
    /\ \A st \in {"path", "raster", "text", "svg"} : result[st] \in {"none", "drawn"}
    /\ result["save"] \in {"none", "ok"}

(* C8 as stated: for every accepted scale, a run with all stages enabled,  *)
(* valid assets and no refusal from the allocator, the encoder or the file *)
(* system ends with an output file of width and height 512 * scale.        *)
C8_EveryScaleProducesFile ==
    (pc = "exit" /\ Given(args) = AllStages /\ args.loop_count > 0 /\ FaultFree) =>
        /\ WrittenByRun
        /\ output[1].width = 512 * args.scale
        /\ output[1].height = 512 * args.scale

ScaledBy(ops, sc) ==
    \A k \in 1..Len(ops) :
        /\ k = 1 => ops[k].op = "clear"
        /\ k > 1 => /\ ops[k].op # "clear"
                    /\ ops[k].ctm.tx % sc = 0
                    /\ ops[k].ctm.ty % sc = 0
                    /\ ops[k].ctm.s = sc * (CASE ops[k].op = "draw_path" -> 45
                                              [] ops[k].op = "draw_image" -> 5
                                              [] ops[k].op = "paint_paragraph" -> 100
                                              [] ops[k].op = "render_svg" -> 22)

(* C8 amended: the side of the requested surface is 512 * scale, within    *)
(* i32, for every accepted scale; a surface exists, and a file is written, *)
(* only for scale 1..255, and then both have width and height 512 * scale; *)
(* with all stages enabled, such a scale and no fault, the run ends with   *)
(* that file; every draw on the surface happens under the global scale.    *)
C8_Amended ==
    /\ surface_side(args.scale) = 512 * args.scale
    /\ surface_side(args.scale) <= I32_MAX
    /\ surface # <<>> =>
          /\ args.scale >= 1
          /\ surface[1].width = 512 * args.scale
          /\ surface[1].height = 512 * args.scale
          /\ ScaledBy(surface[1].canvas.ops, args.scale)
    /\ WrittenByRun =>
          /\ args.scale >= 1
          /\ output[1].width = 512 * args.scale
          /\ output[1].height = 512 * args.scale
          /\ ScaledBy(output[1].ops, args.scale)
    /\ args.scale = 0 => result["surface"] \in {"none", "empty"}
    /\ (pc = "exit" /\ Given(args) = AllStages /\ args.loop_count > 0
            /\ FaultFree /\ args.scale >= 1) =>
          /\ WrittenByRun
          /\ output[1].iter = args.loop_count
          /\ Len(output[1].ops) = 5

C8_Witness ==
    /\ pc = "exit"
    /\ args.scale = U8_MAX
    /\ Given(cli) = {}
    /\ WrittenByRun
    /\ output[1].width = 130560
    /\ output[1].height = 130560
    /\ Len(output[1].ops) = 5

-----------------------------------------------------------------------------
(* C9: once main has applied its default, the enabled stages are all five  *)
(* when no stage flag was given and exactly the given ones otherwise; the  *)
(* loop never changes them, nor the scale and the loop count.              *)
C9_StageEnablement ==
    pc # "main" =>
        /\ Given(args) = IF Given(cli) = {} THEN AllStages ELSE Given(cli)
        /\ args.scale = cli.scale
        /\ args.loop_count = cli.loop_count

C9_Witness ==
    /\ pc = "loop"
    /\ i = 2
    /\ Given(cli) = {"save"}
    /\ Given(args) = {"save"}

-----------------------------------------------------------------------------
(* C10: when the loop has terminated, performance_test ran loop_count      *)
(* times, each time on a surface of its own, and with save enabled the     *)
(* output file is the complete image of the last iteration.                *)
C10_LoopRunsNTimes ==
    /\ pc = "surface" => surface = <<>>
    /\ pc = "exit" =>
          /\ i = args.loop_count
          /\ allocs = args.loop_count
          /\ surface = <<>>
          /\ ("save" \in Given(args) /\ args.loop_count > 0) =>
                /\ WrittenByRun
                /\ output[1].iter = args.loop_count
                /\ output[1].complete

====
